---- MODULE Spec2Model ----
(***************************************************************************)
(* A model of the vulndb report pipeline: the "fix" command of vulnreport  *)
(* (cmd/vulnreport/fix.go) and the report package's CVE converters, range  *)
(* builder, text normalisation and OSV entry generator.                    *)
(*                                                                         *)
(* Strings that the code takes apart character by character (version tags, *)
(* description text) are sequences of one-character strings; strings the   *)
(* code only compares (module paths, symbols, versions) are TLA+ strings.   *)
(***************************************************************************)
EXTENDS Integers, Sequences, FiniteSets, TLC

VARIABLES
    pc,        \* position of the running operation
    flags,     \* the command-line flags force, skipAlias, skipSymbols
    addNotes,  \* the addNotes argument of fixer.fix
    r,         \* the report being fixed (a *yamlReport)
    env,       \* what the collaborators answer during this run
    fixed,     \* the local variable "fixed" of fixer.fix
    ret,       \* what the entry point returned to its caller
    disk,      \* what r.write() and r.writeDerived() left on disk
    trace,     \* the steps executed so far, in order
    input,     \* argument of the pure function under check
    output     \* its results so far

vars == <<pc, flags, addNotes, r, env, fixed, ret, disk, trace, input, output>>

(***************************************************************************)
(* Bounds of the model.                                                    *)
(***************************************************************************)
MaxRanges == 2
MaxText == 5
MaxModules == 2
MaxRefs == 2
MaxAdded == 1
MaxSymbols == 2

\* The sequences over S of length at most n.
SeqUpTo(S, n) == UNION {[1..k -> S] : k \in 0..n}

\* The pipeline variables while a pure function is under check.
PipelineIdle ==
    /\ flags = [force |-> FALSE, skipAlias |-> FALSE, skipSymbols |-> FALSE]
    /\ addNotes = FALSE
    /\ r = <<>>
    /\ env = <<>>
    /\ fixed = TRUE
    /\ ret = "none"
    /\ disk = <<>>
    /\ trace = <<>>

PipelineVars == <<flags, addNotes, r, env, fixed, ret, disk, trace>>

(***************************************************************************)
(* report.AffectedRanges                                                   *)
(***************************************************************************)
Versions == {"", "1.0.0", "1.2.0"}

VersionRange == [Introduced : Versions, Fixed : Versions]

\* An osv.RangeEvent: a struct of which the code sets one field.
RangeEvent(introduced, fixedAt) == [Introduced |-> introduced, Fixed |-> fixedAt]

\* AffectedRanges with the implicit event emitted only for the empty list.
AffectedRangesNoImplicit(versions) ==
    LET events[i \in 0..Len(versions)] ==
            IF i = 0
            THEN IF Len(versions) = 0 THEN <<RangeEvent("0", "")>> ELSE <<>>
            ELSE events[i - 1]
                 \o (IF versions[i].Introduced # ""
                     THEN <<RangeEvent(versions[i].Introduced, "")>> ELSE <<>>)
                 \o (IF versions[i].Fixed # ""
                     THEN <<RangeEvent("", versions[i].Fixed)>> ELSE <<>>)
    IN <<[Type |-> "SEMVER", Events |-> events[Len(versions)]]>>

AffectedRanges(versions) ==
    LET events[i \in 0..Len(versions)] ==
            IF i = 0
            THEN IF Len(versions) = 0 \/ versions[1].Introduced = ""
                 THEN <<RangeEvent("0", "")>> ELSE <<>>
            ELSE events[i - 1]
                 \o (IF versions[i].Introduced # ""
                     THEN <<RangeEvent(versions[i].Introduced, "")>> ELSE <<>>)
                 \o (IF versions[i].Fixed # ""
                     THEN <<RangeEvent("", versions[i].Fixed)>> ELSE <<>>)
    IN <<[Type |-> "SEMVER", Events |-> events[Len(versions)]]>>

InitRanges ==
    /\ pc = "AffectedRanges"
    /\ input \in SeqUpTo(VersionRange, MaxRanges)
    /\ output = <<>>
    /\ PipelineIdle

CallAffectedRanges ==
    /\ pc = "AffectedRanges"
    /\ output' = AffectedRanges(input)
    /\ pc' = "returned"
    /\ UNCHANGED <<input, PipelineVars>>

NextRanges == CallAffectedRanges

SpecRanges == InitRanges /\ [][NextRanges]_vars

\* The events the ranges of vs contribute, range by range.
RECURSIVE RangeEventsOf(_)
RangeEventsOf(vs) ==
    IF vs = <<>> THEN <<>>
    ELSE LET v == Head(vs)
         IN (IF v.Introduced = "" THEN <<>> ELSE <<[Introduced |-> v.Introduced, Fixed |-> ""]>>)
            \o (IF v.Fixed = "" THEN <<>> ELSE <<[Introduced |-> "", Fixed |-> v.Fixed]>>)
            \o RangeEventsOf(Tail(vs))

NonEmptyFields(vs) ==
    Cardinality({i \in 1..Len(vs) : vs[i].Introduced # ""})
    + Cardinality({i \in 1..Len(vs) : vs[i].Fixed # ""})

NeedsImplicitZero(vs) == vs = <<>> \/ vs[1].Introduced = ""

\* C7: AffectedRanges returns exactly one range; its events are an implicit
\* introduced="0" event iff the list is empty or its first introduced field is
\* empty, then for each input range in order its introduced event (if non-empty)
\* and its fixed event (if non-empty); nothing is dropped, merged or reordered.
C7_RangeEvents ==
    pc = "returned" =>
        /\ Len(output) = 1
        /\ output[1].Events =
               (IF NeedsImplicitZero(input)
                THEN <<[Introduced |-> "0", Fixed |-> ""]>> ELSE <<>>)
               \o RangeEventsOf(input)
        /\ Len(output[1].Events) =
               NonEmptyFields(input) + (IF NeedsImplicitZero(input) THEN 1 ELSE 0)

\* A non-empty list whose first introduced field is empty and whose ranges
\* repeat a version: the implicit event is followed by four events.
C7_Witness ==
    /\ pc = "returned"
    /\ Len(input) = 2
    /\ input[1] = [Introduced |-> "", Fixed |-> "1.2.0"]
    /\ input[2] = [Introduced |-> "1.2.0", Fixed |-> "1.2.0"]
    /\ Len(output[1].Events) = 4

(***************************************************************************)
(* report.trimWhitespace                                                   *)
(***************************************************************************)
NL == "\n"
SP == " "
TAB == "\t"

\* The characters description texts are drawn from.
TextChars == {"a", SP, NL, TAB}

\* unicode.IsSpace, and the class \s of the regexp package, on TextChars.
IsSpace(c) == c \in {SP, NL, TAB}

\* strings.TrimSpace
TrimSpace(s) ==
    LET idx == {i \in 1..Len(s) : ~IsSpace(s[i])}
    IN IF idx = {} THEN <<>>
       ELSE LET lo == CHOOSE i \in idx : \A j \in idx : i <= j
                hi == CHOOSE i \in idx : \A j \in idx : j <= i
            IN SubSeq(s, lo, hi)

\* regexp `([^\n])\n([^\n])`.ReplaceAllString(s, "$1 $2"): the matches are
\* found left to right and do not overlap.
RECURSIVE ReplaceSingleNewlines(_)
ReplaceSingleNewlines(s) ==
    IF s = <<>> THEN <<>>
    ELSE IF Len(s) >= 3 /\ s[1] # NL /\ s[2] = NL /\ s[3] # NL
         THEN <<s[1], SP, s[3]>> \o ReplaceSingleNewlines(SubSeq(s, 4, Len(s)))
         ELSE <<s[1]>> \o ReplaceSingleNewlines(Tail(s))

\* The end of the run of characters satisfying the class that starts at s[1].
SpaceRunLen(s) ==
    IF \A i \in 1..Len(s) : IsSpace(s[i]) THEN Len(s)
    ELSE (CHOOSE i \in 1..Len(s) : ~IsSpace(s[i]) /\ \A j \in 1..(i - 1) : IsSpace(s[j])) - 1

\* regexp `\s*\n\n\s*`.ReplaceAllString(s, "\n\n"): a match starts at the
\* leftmost position from which a run of white space holds two adjacent
\* newlines, and the trailing \s* takes the rest of that run.
RECURSIVE ReplaceParagraphs(_)
ReplaceParagraphs(s) ==
    IF s = <<>> THEN <<>>
    ELSE LET n == SpaceRunLen(s)
         IN IF \E i \in 1..(n - 1) : s[i] = NL /\ s[i + 1] = NL
            THEN <<NL, NL>> \o ReplaceParagraphs(SubSeq(s, n + 1, Len(s)))
            ELSE <<s[1]>> \o ReplaceParagraphs(Tail(s))

\* regexp `[ \t]+`.ReplaceAllString(s, " ")
RECURSIVE ReplaceSpaces(_)
ReplaceSpaces(s) ==
    IF s = <<>> THEN <<>>
    ELSE IF s[1] \in {SP, TAB}
         THEN IF Len(s) >= 2 /\ s[2] \in {SP, TAB}
              THEN ReplaceSpaces(Tail(s))
              ELSE <<SP>> \o ReplaceSpaces(Tail(s))
         ELSE <<s[1]>> \o ReplaceSpaces(Tail(s))

trimWhitespace(s) ==
    ReplaceSpaces(ReplaceParagraphs(ReplaceSingleNewlines(TrimSpace(s))))

InitTrim ==
    /\ pc = "trimWhitespace"
    /\ input \in SeqUpTo(TextChars, MaxText)
    /\ output = <<>>
    /\ PipelineIdle

\* GenerateOSVEntry normalises the description of a report.
CallTrimWhitespace ==
    /\ pc = "trimWhitespace"
    /\ output' = <<trimWhitespace(input)>>
    /\ pc' = "normalized"
    /\ UNCHANGED <<input, PipelineVars>>

\* The normalised text is normalised again.
CallTrimWhitespaceAgain ==
    /\ pc = "normalized"
    /\ output' = Append(output, trimWhitespace(output[1]))
    /\ pc' = "returned"
    /\ UNCHANGED <<input, PipelineVars>>

NextTrim == CallTrimWhitespace \/ CallTrimWhitespaceAgain

SpecTrim == InitTrim /\ [][NextTrim]_vars

\* C8: text normalisation is idempotent: normalising an already normalised
\* text yields the same text.
C8_TrimIdempotent ==
    pc = "returned" => output[2] = output[1]

(***************************************************************************)
(* semverForGoVersion                                                      *)
(***************************************************************************)
goStr == <<"g", "o">>
betaStr == <<"b", "e", "t", "a">>
rcStr == <<"r", "c">>
dotStr == <<".">>

\* The class \d of the regexp package.
IsDigit(c) == c \in {"0", "1", "2", "3", "4", "5", "6", "7", "8", "9"}

\* The number of digits \d+ takes from position i of s (it is greedy).
DigitRun(s, i) ==
    IF i > Len(s) \/ ~IsDigit(s[i]) THEN 0
    ELSE IF \A j \in i..Len(s) : IsDigit(s[j]) THEN Len(s) - i + 1
    ELSE (CHOOSE j \in i..Len(s) : ~IsDigit(s[j]) /\ \A k \in i..(j - 1) : IsDigit(s[k])) - i

\* Whether the literal p stands at position i of s.
HasPrefixAt(s, i, p) == i + Len(p) - 1 <= Len(s) /\ SubSeq(s, i, i + Len(p) - 1) = p

\* No match: the nil slice of FindStringSubmatch.
NoMatch == <<>>

\* tagRegexp.FindStringSubmatch(v) for
\* `^go(\d+\.\d+)(\.\d+|)((beta|rc)(\d+))?$`: the groups 1..5 at m[2]..m[6]
\* of the result (m[1] is the whole match), or NoMatch.
tagRegexpFindStringSubmatch(v) ==
    IF ~HasPrefixAt(v, 1, goStr) THEN NoMatch
    ELSE LET major == DigitRun(v, 3)
         IN IF major = 0 \/ ~HasPrefixAt(v, 3 + major, dotStr) THEN NoMatch
            ELSE LET minor == DigitRun(v, 4 + major)
                     p2 == 4 + major + minor
                     patch == IF HasPrefixAt(v, p2, dotStr) THEN DigitRun(v, p2 + 1) ELSE 0
                     p3 == IF patch > 0 THEN p2 + 1 + patch ELSE p2
                     kind == IF HasPrefixAt(v, p3, betaStr) THEN betaStr
                             ELSE IF HasPrefixAt(v, p3, rcStr) THEN rcStr
                             ELSE <<>>
                     num == IF kind # <<>> THEN DigitRun(v, p3 + Len(kind)) ELSE 0
                     p4 == IF num > 0 THEN p3 + Len(kind) + num ELSE p3
                 IN IF minor = 0 \/ p4 # Len(v) + 1 THEN NoMatch
                    ELSE << v,
                            SubSeq(v, 3, p2 - 1),
                            SubSeq(v, p2, p3 - 1),
                            SubSeq(v, p3, p4 - 1),
                            IF num > 0 THEN kind ELSE <<>>,
                            IF num > 0 THEN SubSeq(v, p3 + Len(kind), p4 - 1) ELSE <<>> >>

\* semverForGoVersion that forgets the default patch component.
semverForGoVersionNoPatch(v) ==
    LET m == tagRegexpFindStringSubmatch(v)
    IN IF m = NoMatch THEN <<>>
       ELSE LET version == m[2] \o m[3]
            IN IF m[4] # <<>> THEN version \o <<"-">> \o m[5] \o dotStr \o m[6]
               ELSE version

semverForGoVersion(v) ==
    LET m == tagRegexpFindStringSubmatch(v)
    IN IF m = NoMatch THEN <<>>
       ELSE LET version == IF m[3] # <<>> THEN m[2] \o m[3]
                           ELSE m[2] \o <<".", "0">>
            IN IF m[4] # <<>> THEN version \o <<"-">> \o m[5] \o dotStr \o m[6]
               ELSE version

\* The tags the parser is given: runtime.Version() is "go1.21.3" for a
\* release, "go1.21rc2" for a release candidate, and an arbitrary string
\* ("devel ...", with a trailing experiment list) otherwise.
TagPrefixes == {goStr, <<>>, <<"o", "g">>, <<"x">> \o goStr}
TagMajors == {<<"1">>, <<>>, <<"1", "2">>}
TagSeps == {dotStr, <<>>}
TagMinors == {<<"2", "1">>, <<>>, <<"2">>}
TagPatches == {<<>>, <<".", "3">>, dotStr, <<".", "0">>, <<".", ".", "3">>}
TagPrereleases == {<<>>, betaStr \o <<"1">>, rcStr \o <<"2">>, betaStr, rcStr,
                   <<"a", "l", "p", "h", "a", "1">>, <<"-">> \o rcStr \o <<"1">>}
TagSuffixes == {<<>>, <<"x">>, <<" ">>, <<".", "1">>}

GoVersionTags ==
    {a \o b \o c \o d \o e \o f \o g :
        a \in TagPrefixes, b \in TagMajors, c \in TagSeps, d \in TagMinors,
        e \in TagPatches, f \in TagPrereleases, g \in TagSuffixes}

InitSemver ==
    /\ pc = "semverForGoVersion"
    /\ input \in GoVersionTags
    /\ output = <<>>
    /\ PipelineIdle

CallSemverForGoVersion ==
    /\ pc = "semverForGoVersion"
    /\ output' = semverForGoVersion(input)
    /\ pc' = "returned"
    /\ UNCHANGED <<input, PipelineVars>>

NextSemver == CallSemverForGoVersion

SpecSemver == InitSemver /\ [][NextSemver]_vars

\* Whether n >= 1 digits stand at position i of s.
NumberAt(s, i, n) == n >= 1 /\ i + n - 1 <= Len(s) /\ \A k \in i..(i + n - 1) : IsDigit(s[k])

\* The readings of v as go<major>.<minor>[.<patch>][(beta|rc)<n>]: the
\* lengths of major, minor, patch (0: absent) and n (0: no prerelease) and
\* the prerelease word.
TagReadings(v) ==
    IF ~HasPrefixAt(v, 1, goStr) THEN {}
    ELSE UNION {
        UNION {
            UNION {
                {[major |-> a, minor |-> b, patch |-> c, kind |-> w[1], num |-> w[2]] :
                    w \in {x \in {betaStr, rcStr} \X (0..Len(v)) :
                        LET q2 == IF c = 0 THEN 4 + a + b ELSE 5 + a + b + c
                        IN IF x[2] = 0
                           THEN x[1] = betaStr /\ q2 = Len(v) + 1
                           ELSE /\ HasPrefixAt(v, q2, x[1])
                                /\ NumberAt(v, q2 + Len(x[1]), x[2])
                                /\ q2 + Len(x[1]) + x[2] = Len(v) + 1}} :
                c \in {y \in 0..Len(v) :
                    y > 0 => HasPrefixAt(v, 4 + a + b, dotStr) /\ NumberAt(v, 5 + a + b, y)}} :
            b \in {y \in 1..Len(v) : NumberAt(v, 4 + a, y)}} :
        a \in {y \in 1..Len(v) : NumberAt(v, 3, y) /\ HasPrefixAt(v, 3 + y, dotStr)}}

\* <major>.<minor>.<patch>[-<beta|rc>.<n>] for a reading of v.
RenderReading(v, p) ==
    LET q == 4 + p.major + p.minor
        q2 == IF p.patch = 0 THEN q ELSE q + 1 + p.patch
    IN SubSeq(v, 3, 2 + p.major) \o dotStr \o SubSeq(v, 4 + p.major, 3 + p.major + p.minor)
       \o dotStr \o (IF p.patch = 0 THEN <<"0">> ELSE SubSeq(v, q + 1, q + p.patch))
       \o (IF p.num = 0 THEN <<>>
           ELSE <<"-">> \o p.kind \o dotStr
                \o SubSeq(v, q2 + Len(p.kind), q2 + Len(p.kind) + p.num - 1))

\* C9: for a tag of the shape go<major>.<minor>[.<patch>][(beta|rc)<n>]
\* semverForGoVersion returns <major>.<minor>.<patch>, the patch defaulting to
\* 0, with -<beta|rc>.<n> appended for a prerelease; for every other tag it
\* returns the empty string.
C9_Semver ==
    pc = "returned" =>
        /\ TagReadings(input) = {} => output = <<>>
        /\ \A p \in TagReadings(input) : output = RenderReading(input, p)
        /\ input = <<"g", "o", "1", ".", "2", "1", ".", "3">>
               => output = <<"1", ".", "2", "1", ".", "3">>
        /\ input = <<"g", "o", "1", ".", "2", "1", "b", "e", "t", "a", "1">>
               => output = <<"1", ".", "2", "1", ".", "0", "-", "b", "e", "t", "a", ".", "1">>
        /\ input = <<"1", ".", "2", "1", ".", "3">> => output = <<>>

\* A prerelease tag without a patch component has been parsed: both the
\* default patch and the prerelease rule apply.
C9_Witness ==
    /\ pc = "returned"
    /\ input = <<"g", "o", "1", ".", "2", "1", "b", "e", "t", "a", "1">>
    /\ output = <<"1", ".", "2", "1", ".", "0", "-", "b", "e", "t", "a", ".", "1">>

(***************************************************************************)
(* The report model and the CVE converters cveToReport and cve5ToReport    *)
(***************************************************************************)
\* stdlib.ModulePath and stdlib.ToolchainModulePath: the internal sentinels.
stdlibModulePath == "std"
stdlibToolchainModulePath == "cmd"

\* The module paths of the standard-library family, of which stdlib.Contains
\* tells whether a path is one.
StdlibFamily == {"std", "net/http", "crypto/tls"}
stdlibContains(modulePath) == modulePath \in StdlibFamily

stdlibIsStdModule(modulePath) == modulePath = stdlibModulePath
stdlibIsCmdModule(modulePath) == modulePath = stdlibToolchainModulePath
\* The extended first-party family: the modules under golang.org/x/.
XModules == {"golang.org/x/net"}
stdlibIsXModule(modulePath) == modulePath \in XModules

\* A report.Package of which only the path is set.
NewPackage(path) ==
    [Package |-> path, GOOS |-> <<>>, GOARCH |-> <<>>, Symbols |-> <<>>,
     DerivedSymbols |-> <<>>, ExcludedSymbols |-> <<>>, SkipFix |-> ""]

\* A report.Module with one package and no versions.
NewModule(modulePath, pkgPath) ==
    [Module |-> modulePath, Versions |-> <<>>, VulnerableAt |-> "",
     Packages |-> <<NewPackage(pkgPath)>>]

\* No CVEMetadata: the nil pointer.
NoCVEMeta == <<>>

referenceFromUrl(url) == [URL |-> url]

\* addCVE that also lists the id of a first-party CVE among the plain CVEs.
addCVEAlsoListed(rep, cveID, modulePath) ==
    IF stdlibIsStdModule(modulePath) \/ stdlibIsCmdModule(modulePath)
       \/ stdlibIsXModule(modulePath)
    THEN [rep EXCEPT !.CVEMetadata = [ID |-> cveID, CWE |-> "TODO"],
                     !.CVEs = Append(rep.CVEs, cveID)]
    ELSE [rep EXCEPT !.CVEs = Append(rep.CVEs, cveID)]

\* Report.addCVE
addCVE(rep, cveID, modulePath) ==
    IF stdlibIsStdModule(modulePath) \/ stdlibIsCmdModule(modulePath)
       \/ stdlibIsXModule(modulePath)
    THEN [rep EXCEPT !.CVEMetadata = [ID |-> cveID, CWE |-> "TODO"]]
    ELSE [rep EXCEPT !.CVEs = Append(rep.CVEs, cveID)]

\* The description values, each terminated by a newline.
RECURSIVE JoinLines(_)
JoinLines(values) ==
    IF values = <<>> THEN <<>>
    ELSE <<Head(values), NL>> \o JoinLines(Tail(values))

\* ResolvePaths with the package default taken before the module path is
\* resolved to "TODO".
ResolvePathsDefaultFirst(modulePath, productName) ==
    LET pkg1 == IF stdlibContains(modulePath) THEN modulePath ELSE productName
        mod1 == IF stdlibContains(modulePath) THEN stdlibModulePath ELSE modulePath
        pkg2 == IF pkg1 = "" THEN mod1 ELSE pkg1
        mod2 == IF mod1 = "" THEN "TODO" ELSE mod1
    IN [modulePath |-> mod2, pkgPath |-> pkg2]

\* The module and package path both converters derive from the candidate
\* module path and the first product name.
ResolvePaths(modulePath, productName) ==
    LET pkg1 == IF stdlibContains(modulePath) THEN modulePath ELSE productName
        mod1 == IF stdlibContains(modulePath) THEN stdlibModulePath ELSE modulePath
        mod2 == IF mod1 = "" THEN "TODO" ELSE mod1
        pkg2 == IF pkg1 = "" THEN mod2 ELSE pkg1
    IN [modulePath |-> mod2, pkgPath |-> pkg2]

cveToReport(c, id, modulePath) ==
    LET data == c.Affects
        pkgPath == IF Len(data) > 0 /\ Len(data[1]) > 0 THEN data[1][1] ELSE ""
        paths == ResolvePaths(modulePath, pkgPath)
        rep == [ID |-> id,
                Modules |-> <<NewModule(paths.modulePath, paths.pkgPath)>>,
                Description |-> JoinLines(c.Description),
                Credits |-> c.Credit,
                References |-> [i \in 1..Len(c.References) |-> referenceFromUrl(c.References[i])],
                CVEs |-> <<>>,
                CVEMetadata |-> NoCVEMeta]
    IN addCVE(rep, c.ID, paths.modulePath)

\* The values of the descriptions in English.
RECURSIVE EnglishValues(_)
EnglishValues(descriptions) ==
    IF descriptions = <<>> THEN <<>>
    ELSE (IF Head(descriptions).Lang = "en" THEN <<Head(descriptions).Value>> ELSE <<>>)
         \o EnglishValues(Tail(descriptions))

cve5ToReport(c, id, modulePath) ==
    LET affected == c.Affected
        pkgPath == IF Len(affected) > 0 THEN affected[1] ELSE ""
        paths == ResolvePaths(modulePath, pkgPath)
        rep == [ID |-> id,
                Modules |-> <<NewModule(paths.modulePath, paths.pkgPath)>>,
                Description |-> JoinLines(EnglishValues(c.Descriptions)),
                Credits |-> c.Credits,
                References |-> [i \in 1..Len(c.References) |-> referenceFromUrl(c.References[i])],
                CVEs |-> <<>>,
                CVEMetadata |-> NoCVEMeta]
    IN addCVE(rep, c.ID, paths.modulePath)

\* The candidate module paths a conversion is called with.
CandidateModulePaths ==
    {"", "std", "cmd", "net/http", "golang.org/x/net", "example.com/m"}

\* CVE records of the v4 schema: Affects holds, per vendor, its product names.
CVE4Records ==
    [ID : {"CVE-2024-0001"},
     Description : {<<>>, <<"d1">>, <<"d1", "d2">>},
     References : {<<>>, <<"https://a", "https://b">>},
     Credit : {<<>>, <<"alice">>},
     Affects : {<<>>, <<<<>>>>, <<<<"">>>>, <<<<"foo">>>>, <<<<"foo", "bar">>, <<"baz">>>>,
                <<<<>>, <<"baz">>>>}]

\* CVE records of the v5 schema: Affected holds the product of each block.
CVE5Records ==
    [ID : {"CVE-2024-0001"},
     Descriptions : {<<>>, <<[Lang |-> "en", Value |-> "d1"]>>,
                     <<[Lang |-> "fr", Value |-> "d0"], [Lang |-> "en", Value |-> "d1"]>>},
     References : {<<>>, <<"https://a", "https://b">>},
     Credits : {<<>>, <<"alice">>},
     Affected : {<<>>, <<"">>, <<"foo">>, <<"", "bar">>, <<"foo", "bar">>}]

InitConvert ==
    /\ pc = "convert"
    /\ input \in [schema : {4}, c : CVE4Records, id : {"GO-2024-0001"},
                  modulePath : CandidateModulePaths]
              \cup [schema : {5}, c : CVE5Records, id : {"GO-2024-0001"},
                    modulePath : CandidateModulePaths]
    /\ output = <<>>
    /\ PipelineIdle

CallCveToReport ==
    /\ pc = "convert"
    /\ input.schema = 4
    /\ output' = cveToReport(input.c, input.id, input.modulePath)
    /\ pc' = "returned"
    /\ UNCHANGED <<input, PipelineVars>>

CallCve5ToReport ==
    /\ pc = "convert"
    /\ input.schema = 5
    /\ output' = cve5ToReport(input.c, input.id, input.modulePath)
    /\ pc' = "returned"
    /\ UNCHANGED <<input, PipelineVars>>

NextConvert == CallCveToReport \/ CallCve5ToReport

SpecConvert == InitConvert /\ [][NextConvert]_vars

\* The first product name of the record of a conversion, "" if there is none.
FirstProductName(in) ==
    IF in.schema = 4
    THEN IF in.c.Affects = <<>> \/ Head(in.c.Affects) = <<>> THEN ""
         ELSE Head(Head(in.c.Affects))
    ELSE IF in.c.Affected = <<>> THEN "" ELSE Head(in.c.Affected)

\* C10: both converters produce exactly one module with exactly one package
\* and no empty path. A candidate module path of the standard-library family
\* becomes the package path and the module path is the standard-library
\* sentinel; otherwise an empty module path becomes "TODO" and an empty
\* package path defaults to the resolved module path.
C10_ConvertedPaths ==
    pc = "returned" =>
        LET m == output.Modules[1]
            first == FirstProductName(input)
        IN /\ Len(output.Modules) = 1
           /\ Len(m.Packages) = 1
           /\ m.Module # ""
           /\ m.Packages[1].Package # ""
           /\ input.modulePath \in StdlibFamily =>
                  /\ m.Packages[1].Package = input.modulePath
                  /\ m.Module = stdlibModulePath
           /\ input.modulePath \notin StdlibFamily =>
                  /\ m.Module = (IF input.modulePath = "" THEN "TODO" ELSE input.modulePath)
                  /\ m.Packages[1].Package = (IF first = "" THEN m.Module ELSE first)
           /\ (input.modulePath = "" /\ first = "foo") =>
                  (m.Module = "TODO" /\ m.Packages[1].Package = "foo")

\* A v4 record without any product name was converted with an empty
\* candidate module path: both paths are the unresolved marker.
C10_Witness ==
    /\ pc = "returned"
    /\ input.schema = 4
    /\ input.modulePath = ""
    /\ FirstProductName(input) = ""
    /\ output.Modules[1].Module = "TODO"
    /\ output.Modules[1].Packages[1].Package = "TODO"

\* The module paths of the standard-library, command-line-tool and extended
\* first-party families.
FirstPartyFamilies == {"std", "cmd", "golang.org/x/net"}

\* Whether the report carries primary CVE metadata.
HasCVEMeta(rep) == DOMAIN rep.CVEMetadata = {"ID", "CWE"}

\* C11: after a conversion the CVE id is attached in exactly one place,
\* decided by the resolved module path: for a path of the standard-library,
\* command-line-tool or extended first-party family the report has primary
\* CVE metadata with that id and the weakness "TODO" and no plain CVE;
\* otherwise the plain CVE list is exactly the id and there is no metadata.
C11_CVEAttachedOnce ==
    pc = "returned" =>
        LET resolved == output.Modules[1].Module
        IN IF resolved \in FirstPartyFamilies
           THEN /\ HasCVEMeta(output)
                /\ output.CVEMetadata.ID = input.c.ID
                /\ output.CVEMetadata.CWE = "TODO"
                /\ output.CVEs = <<>>
           ELSE /\ ~HasCVEMeta(output)
                /\ output.CVEs = <<input.c.ID>>

\* A package of the standard library was given as the module path: the
\* resolved path is the sentinel, and the id is in the primary metadata only.
C11_Witness ==
    /\ pc = "returned"
    /\ input.modulePath = "net/http"
    /\ output.Modules[1].Module = "std"
    /\ HasCVEMeta(output)
    /\ output.CVEMetadata.ID = "CVE-2024-0001"
    /\ output.CVEs = <<>>

(***************************************************************************)
(* Report.GenerateOSVEntry, generateAffected and generateImports           *)
(***************************************************************************)

\* The module paths and the ecosystem of the public entry (package osv).
osvGoStdModulePath == "stdlib"
osvGoCmdModulePath == "toolchain"
osvGoEcosystem == "Go"

SchemaVersion == "1.3.1"

\* The symbols of the entry generator's inputs, in the byte order that
\* sort.Strings compares them by.
SymbolNames == <<"A", "B", "C">>

SymbolRank(s) == CHOOSE i \in 1..Len(SymbolNames) : SymbolNames[i] = s

\* s < t as sort.Strings compares strings.
StringLess(s, t) == SymbolRank(s) < SymbolRank(t)

RECURSIVE InsertSorted(_, _)
InsertSorted(sorted, s) ==
    IF sorted = <<>> THEN <<s>>
    ELSE IF StringLess(s, Head(sorted)) THEN <<s>> \o sorted
         ELSE <<Head(sorted)>> \o InsertSorted(Tail(sorted), s)

\* sort.Strings
RECURSIVE sortStrings(_)
sortStrings(syms) ==
    IF syms = <<>> THEN <<>>
    ELSE InsertSorted(sortStrings(SubSeq(syms, 1, Len(syms) - 1)), syms[Len(syms)])

\* generateImports without the sort.
generateImportsUnsorted(m) ==
    [imps |-> [j \in 1..Len(m.Packages) |->
                  LET p == m.Packages[j]
                  IN [Path |-> p.Package, GOOS |-> p.GOOS, GOARCH |-> p.GOARCH,
                      Symbols |-> p.Symbols \o p.DerivedSymbols]],
     Packages |-> m.Packages]

\* generateImports: the packages of the entry and the packages of the module
\* after the call. The symbols are appended to a fresh slice, which is the
\* one sorted, so that nothing is written through m.
generateImports(m) ==
    [imps |-> [j \in 1..Len(m.Packages) |->
                  LET p == m.Packages[j]
                      syms0 == <<>> \o p.Symbols
                      syms == syms0 \o p.DerivedSymbols
                  IN [Path |-> p.Package, GOOS |-> p.GOOS, GOARCH |-> p.GOARCH,
                      Symbols |-> sortStrings(syms)]],
     Packages |-> m.Packages]

\* generateAffected that keeps the module path of the report.
generateAffectedSamePath(m) ==
    [Module |-> [Path |-> m.Module, Ecosystem |-> osvGoEcosystem],
     Ranges |-> AffectedRanges(m.Versions),
     EcosystemSpecific |-> [Packages |-> generateImports(m).imps]]

generateAffected(m) ==
    LET name == CASE m.Module = stdlibModulePath -> osvGoStdModulePath
                  [] m.Module = stdlibToolchainModulePath -> osvGoCmdModulePath
                  [] OTHER -> m.Module
    IN [Module |-> [Path |-> name, Ecosystem |-> osvGoEcosystem],
        Ranges |-> AffectedRanges(m.Versions),
        EcosystemSpecific |-> [Packages |-> generateImports(m).imps]]

\* Report.GetAliases: the CVE ids of the report.
GetAliases(rep) ==
    rep.CVEs \o (IF HasCVEMeta(rep) THEN <<rep.CVEMetadata.ID>> ELSE <<>>)

\* The link back to the advisory of the identifier.
GetGoAdvisoryLink(goID) == <<"https://pkg.go.dev/vuln/", goID>>

\* Report.GenerateOSVEntry: the entry, and the modules of the report after
\* the call. A nil time is <<>>, a pointer to the time t is <<t>>.
GenerateOSVEntry(rep, goID, lastModified) ==
    [entry |->
        [ID |-> goID,
         Published |-> rep.Published,
         Modified |-> lastModified,
         Withdrawn |-> IF rep.Withdrawn # <<>> THEN <<rep.Withdrawn[1]>> ELSE <<>>,
         Details |-> trimWhitespace(rep.Description),
         Credits |-> [i \in 1..Len(rep.Credits) |-> [Name |-> rep.Credits[i]]],
         SchemaVersion |-> SchemaVersion,
         DatabaseSpecific |-> [URL |-> GetGoAdvisoryLink(goID)],
         Affected |-> [i \in 1..Len(rep.Modules) |-> generateAffected(rep.Modules[i])],
         References |-> [i \in 1..Len(rep.References) |-> [URL |-> rep.References[i].URL]],
         Aliases |-> GetAliases(rep)],
     Modules |-> [i \in 1..Len(rep.Modules) |->
                     [rep.Modules[i] EXCEPT !.Packages = generateImports(rep.Modules[i]).Packages]]]

\* The packages the entry generator is given: every pair of a curated and a
\* derived symbol list, in any order and with repetitions.
EntryPackages ==
    {[NewPackage("example.com/m/p") EXCEPT !.Symbols = s, !.DerivedSymbols = d] :
        s \in SeqUpTo({"A", "B", "C"}, MaxSymbols),
        d \in SeqUpTo({"A", "B", "C"}, MaxSymbols)}

EntryModules ==
    {[Module |-> path, Versions |-> vs, VulnerableAt |-> "", Packages |-> pkgs] :
        path \in {stdlibModulePath, stdlibToolchainModulePath, "example.com/m"},
        vs \in {<<>>, <<[Introduced |-> "1.0.0", Fixed |-> "1.2.0"]>>},
        pkgs \in {<<p>> : p \in EntryPackages}
                 \cup {<<>>, <<NewPackage("p1"), [NewPackage("p2") EXCEPT !.GOOS = <<"linux">>]>>}}

\* The reports the entry generator is given: the reports converted from v4
\* records, and reports of one module of the pool.
EntryReports ==
    {cveToReport(c, "GO-2024-0001", path) @@ [Published |-> 1, Withdrawn |-> <<>>] :
        c \in CVE4Records, path \in CandidateModulePaths}
    \cup {[ID |-> "GO-2024-0001", Modules |-> <<m>>, Description |-> <<"d", NL, SP>>,
           Credits |-> <<"alice">>, References |-> <<referenceFromUrl("https://a")>>,
           CVEs |-> <<"CVE-2024-0001">>, CVEMetadata |-> NoCVEMeta,
           Published |-> 1, Withdrawn |-> w] :
          m \in EntryModules, w \in {<<>>, <<3>>}}

InitEntry ==
    /\ pc = "GenerateOSVEntry"
    /\ r \in EntryReports
    /\ input = [r |-> r, goID |-> "GO-2024-0001", lastModified |-> 2]
    /\ output = <<>>
    /\ flags = [force |-> FALSE, skipAlias |-> FALSE, skipSymbols |-> FALSE]
    /\ addNotes = FALSE
    /\ env = <<>>
    /\ fixed = TRUE
    /\ ret = "none"
    /\ disk = <<>>
    /\ trace = <<>>

CallGenerateOSVEntry ==
    /\ pc = "GenerateOSVEntry"
    /\ LET run == GenerateOSVEntry(r, input.goID, input.lastModified)
       IN /\ output' = run.entry
          /\ r' = [r EXCEPT !.Modules = run.Modules]
    /\ pc' = "generated"
    /\ UNCHANGED <<input, flags, addNotes, env, fixed, ret, disk, trace>>

NextEntry == CallGenerateOSVEntry

SpecEntry == InitEntry /\ [][NextEntry]_vars

\* The module path of the public entry for a module path of the report.
PublicPath(path) ==
    IF path = "std" THEN "stdlib" ELSE IF path = "cmd" THEN "toolchain" ELSE path

\* C12: no affected block of a generated entry carries an internal sentinel
\* module path: the block of the i-th module has the public standard-library
\* path for the standard-library sentinel, the public toolchain path for the
\* toolchain sentinel and the module's own path otherwise; the entry of a v4
\* record converted with the standard-library sentinel as module path and no
\* package has the public standard-library path.
C12_NoSentinelInEntry ==
    pc = "generated" =>
        /\ Len(output.Affected) = Len(input.r.Modules)
        /\ \A i \in 1..Len(output.Affected) :
              /\ output.Affected[i].Module.Path = PublicPath(input.r.Modules[i].Module)
              /\ output.Affected[i].Module.Path \notin {"std", "cmd"}
        /\ \A c \in CVE4Records :
              (/\ c.Affects \in {<<>>, <<<<>>>>, <<<<"">>>>}
               /\ input.r = cveToReport(c, "GO-2024-0001", "std")
                              @@ [Published |-> 1, Withdrawn |-> <<>>])
              => /\ Len(output.Affected) = 1
                 /\ output.Affected[1].Module.Path = "stdlib"

\* The entry of a v4 record without a package, converted with the
\* standard-library sentinel as module path, was generated.
C12_Witness ==
    /\ pc = "generated"
    /\ \E c \in CVE4Records :
          /\ c.Affects = <<<<"">>>>
          /\ input.r = cveToReport(c, "GO-2024-0001", "std")
                         @@ [Published |-> 1, Withdrawn |-> <<>>]
    /\ input.r.Modules[1].Module = "std"
    /\ output.Affected[1].Module.Path = "stdlib"

\* The number of occurrences of s in seq.
Occurrences(seq, s) == Cardinality({k \in 1..Len(seq) : seq[k] = s})

\* The pairs of different symbols in ascending order.
Ascending == {<<"A", "B">>, <<"A", "C">>, <<"B", "C">>}

\* C20: for every package of every module the symbol list of the generated
\* entry is the curated Symbols and the DerivedSymbols together, sorted in
\* ascending order and not deduplicated: its length is the sum of their
\* lengths, every symbol occurs as often as in the two lists together, and no
\* symbol stands before a smaller one; the two lists of the report are as
\* they were before the entry was generated.
C20_SymbolsSortedNotDeduplicated ==
    pc = "generated" =>
        /\ r = input.r
        /\ \A i \in 1..Len(input.r.Modules) :
               LET pkgs == input.r.Modules[i].Packages
                   imps == output.Affected[i].EcosystemSpecific.Packages
               IN /\ Len(imps) = Len(pkgs)
                  /\ \A j \in 1..Len(pkgs) :
                         LET syms == imps[j].Symbols
                         IN /\ Len(syms) = Len(pkgs[j].Symbols) + Len(pkgs[j].DerivedSymbols)
                            /\ \A s \in {"A", "B", "C"} :
                                   Occurrences(syms, s)
                                       = Occurrences(pkgs[j].Symbols, s)
                                         + Occurrences(pkgs[j].DerivedSymbols, s)
                            /\ \A k, l \in 1..Len(syms) :
                                   k < l => <<syms[l], syms[k]>> \notin Ascending
                            /\ r.Modules[i].Packages[j].Symbols = pkgs[j].Symbols
                            /\ r.Modules[i].Packages[j].DerivedSymbols = pkgs[j].DerivedSymbols

\* The entry of a package with the curated symbols C, A and the derived
\* symbols B, A lists A twice: A, A, B, C.
C20_Witness ==
    /\ pc = "generated"
    /\ Len(input.r.Modules) = 1
    /\ Len(input.r.Modules[1].Packages) = 1
    /\ input.r.Modules[1].Packages[1].Symbols = <<"C", "A">>
    /\ input.r.Modules[1].Packages[1].DerivedSymbols = <<"B", "A">>
    /\ output.Affected[1].EcosystemSpecific.Packages[1].Symbols = <<"A", "A", "B", "C">>
    /\ r.Modules[1].Packages[1].Symbols = <<"C", "A">>

(***************************************************************************)
(* yamlReport.checkSymbols and removeExcluded                              *)
(***************************************************************************)
\* Module.IsFirstParty: the modules of the standard toolchain.
IsFirstParty(m) == stdlibIsStdModule(m.Module) \/ stdlibIsCmdModule(m.Module)

\* Report.IsExcluded
IsExcluded(rep) == rep.Excluded # ""

\* slices.Contains
Contains(seq, x) == \E i \in 1..Len(seq) : seq[i] = x

\* removeExcluded that drops the symbols that are NOT excluded.
removeExcludedInverted(syms, excluded) ==
    IF Len(excluded) = 0 THEN syms
    ELSE SelectSeq(syms, LAMBDA d : Contains(excluded, d))

removeExcluded(syms, excluded) ==
    IF Len(excluded) = 0 THEN syms
    ELSE SelectSeq(syms, LAMBDA d : ~Contains(excluded, d))

\* The gate of checkSymbols with the test of the empty version left out.
SkipFirstPartyAffectedOnly(ver, affected) == ~affected

\* The gate of checkSymbols for a first-party module: `ver == "" || !affected`.
SkipFirstParty(ver, affected) == ver = <<>> \/ ~affected

\* What osvutils.AffectsSemver may answer: (true, nil), (false, nil) or an error.
AffectsAnswers == {[affected |-> TRUE, err |-> FALSE], [affected |-> FALSE, err |-> FALSE],
                   [affected |-> FALSE, err |-> TRUE]}

\* What symbols.Exported may answer: the exported symbols of the package, or
\* an error (the package does not load).
ExportedAnswers == {[syms |-> <<"A", "B", "C">>, err |-> FALSE],
                    [syms |-> <<"B">>, err |-> FALSE],
                    [syms |-> <<>>, err |-> TRUE]}

NoErr == ""

\* The package loop that ends at the first package with a skip reason.
RECURSIVE packageLoopSkipEnds(_, _, _)
packageLoopSkipEnds(mi, pkgs, j) ==
    IF j > Len(pkgs) THEN {[Packages |-> pkgs, err |-> NoErr, calls |-> <<>>]}
    ELSE IF pkgs[j].SkipFix # "" THEN {[Packages |-> pkgs, err |-> NoErr, calls |-> <<>>]}
    ELSE UNION {
        LET call == [fn |-> "symbols.Exported", module |-> mi, package |-> j, answer |-> x]
        IN IF x.err
           THEN {[Packages |-> pkgs, err |-> "package error", calls |-> <<call>>]}
           ELSE LET syms == removeExcluded(x.syms, pkgs[j].ExcludedSymbols)
                    differs == syms # pkgs[j].DerivedSymbols
                    updated == IF differs
                               THEN [pkgs EXCEPT ![j].DerivedSymbols = syms]
                               ELSE pkgs
                    logged == IF differs
                              THEN <<[fn |-> "updated derived symbols", module |-> mi,
                                      package |-> j, answer |-> x]>>
                              ELSE <<>>
                IN {[o EXCEPT !.calls = <<call>> \o logged \o @] :
                       o \in packageLoopSkipEnds(mi, updated, j + 1)} :
        x \in ExportedAnswers}

\* The runs of the package loop of checkSymbols for module mi from package j
\* on, one for each way symbols.Exported may answer: the packages afterwards,
\* the error returned and the calls made, with the line logged when the
\* derived symbols of a package are assigned.
RECURSIVE packageLoop(_, _, _)
packageLoop(mi, pkgs, j) ==
    IF j > Len(pkgs) THEN {[Packages |-> pkgs, err |-> NoErr, calls |-> <<>>]}
    ELSE IF pkgs[j].SkipFix # "" THEN packageLoop(mi, pkgs, j + 1)
    ELSE UNION {
        LET call == [fn |-> "symbols.Exported", module |-> mi, package |-> j, answer |-> x]
        IN IF x.err
           THEN {[Packages |-> pkgs, err |-> "package error", calls |-> <<call>>]}
           ELSE LET syms == removeExcluded(x.syms, pkgs[j].ExcludedSymbols)
                    differs == syms # pkgs[j].DerivedSymbols
                    updated == IF differs
                               THEN [pkgs EXCEPT ![j].DerivedSymbols = syms]
                               ELSE pkgs
                    logged == IF differs
                              THEN <<[fn |-> "updated derived symbols", module |-> mi,
                                      package |-> j, answer |-> x]>>
                              ELSE <<>>
                IN {[o EXCEPT !.calls = <<call>> \o logged \o @] :
                       o \in packageLoop(mi, updated, j + 1)} :
        x \in ExportedAnswers}

\* The runs of the module loop of checkSymbols from module i on.
RECURSIVE moduleLoop(_, _, _)
moduleLoop(modules, ver, i) ==
    IF i > Len(modules) THEN {[Modules |-> modules, err |-> NoErr, calls |-> <<>>]}
    ELSE LET m == modules[i]
             rest(pkgRuns, before) ==
                 UNION {IF o.err # NoErr
                        THEN {[Modules |-> [modules EXCEPT ![i].Packages = o.Packages],
                               err |-> o.err, calls |-> before \o o.calls]}
                        ELSE {[n EXCEPT !.calls = before \o o.calls \o @] :
                                 n \in moduleLoop([modules EXCEPT ![i].Packages = o.Packages],
                                                  ver, i + 1)} :
                        o \in pkgRuns}
         IN IF IsFirstParty(m)
            THEN UNION {
                LET call == [fn |-> "osvutils.AffectsSemver", module |-> i, package |-> 0,
                             answer |-> a]
                IN IF a.err
                   THEN {[Modules |-> modules, err |-> "affects error", calls |-> <<call>>]}
                   ELSE IF SkipFirstParty(ver, a.affected)
                   THEN {[n EXCEPT !.calls = <<call>> \o @] : n \in moduleLoop(modules, ver, i + 1)}
                   ELSE rest(packageLoop(i, m.Packages, 1), <<call>>) :
                a \in AffectsAnswers}
            ELSE rest(packageLoop(i, m.Packages, 1), <<>>)

\* The runs of r.checkSymbols() under the toolchain version gover.
checkSymbols(rep, gover) ==
    IF IsExcluded(rep) THEN {[Modules |-> rep.Modules, err |-> NoErr, calls |-> <<>>]}
    ELSE moduleLoop(rep.Modules, semverForGoVersion(gover), 1)

\* Packages and modules of the reports under check.
PkgCurated == [NewPackage("p1") EXCEPT !.Symbols = <<"A">>]
PkgStale == [NewPackage("p2") EXCEPT !.DerivedSymbols = <<"A", "B">>, !.ExcludedSymbols = <<"B">>]
PkgSkipped == [NewPackage("p3") EXCEPT !.DerivedSymbols = <<"A">>, !.SkipFix = "not importable"]
PkgFresh == [NewPackage("p4") EXCEPT !.DerivedSymbols = <<"A", "C">>, !.ExcludedSymbols = <<"B">>]

PackageLists ==
    {<<PkgStale>>, <<PkgFresh>>, <<PkgSkipped, PkgCurated>>, <<PkgCurated, PkgSkipped, PkgStale>>}

ModulePool ==
    {[Module |-> path, Versions |-> <<[Introduced |-> "", Fixed |-> "1.2.0"]>>,
      VulnerableAt |-> "1.21.3", Packages |-> pkgs] :
        path \in {stdlibModulePath, "example.com/m"}, pkgs \in PackageLists}

\* runtime.Version(): a release, a release candidate, a development build.
GoVersions ==
    {<<"g", "o", "1", ".", "2", "1", ".", "3">>,
     <<"g", "o", "1", ".", "2", "2", "r", "c", "1">>,
     <<"d", "e", "v", "e", "l">>}

NewReport(modules, excluded, references, defects) ==
    [ID |-> "GO-2024-0001", Excluded |-> excluded, Modules |-> modules,
     References |-> references, Notes |-> <<>>, Defects |-> defects, Aliases |-> <<>>]

InitSymbols ==
    /\ pc = "checkSymbols"
    /\ \E modules \in SeqUpTo(ModulePool, MaxModules) \ {<<>>},
          excluded \in {"", "NOT_GO_CODE"} :
           r = NewReport(modules, excluded, <<>>, <<>>)
    /\ env \in [gover : GoVersions, calls : {<<>>}]
    /\ input = r
    /\ output = <<>>
    /\ flags = [force |-> FALSE, skipAlias |-> FALSE, skipSymbols |-> FALSE]
    /\ addNotes = FALSE
    /\ fixed = TRUE
    /\ ret = "none"
    /\ disk = <<>>
    /\ trace = <<>>

CallCheckSymbols ==
    /\ pc = "checkSymbols"
    /\ \E o \in checkSymbols(r, env.gover) :
           /\ r' = [r EXCEPT !.Modules = o.Modules]
           /\ env' = [env EXCEPT !.calls = o.calls]
           /\ output' = o.err
    /\ pc' = "returned"
    /\ UNCHANGED <<input, flags, addNotes, fixed, ret, disk, trace>>

NextSymbols == CallCheckSymbols

SpecSymbols == InitSymbols /\ [][NextSymbols]_vars

\* The calls of function fn that checkSymbols made for module i.
CallsFor(fn, i) == {k \in 1..Len(env.calls) : env.calls[k].fn = fn /\ env.calls[k].module = i}

\* The derived symbols of the packages of module i are those before the call.
DerivedUnchanged(i) ==
    \A k \in 1..Len(input.Modules[i].Packages) :
        r.Modules[i].Packages[k].DerivedSymbols = input.Modules[i].Packages[k].DerivedSymbols

\* C4: for a first-party module, if the parsed toolchain version is the empty
\* sentinel or the affected-range check says the version is not in the
\* module's ranges, checkSymbols never queries the Symbol Exporter for a
\* package of that module and leaves their DerivedSymbols unchanged.
C4_GateSkipsModule ==
    pc = "returned" =>
        \A i \in 1..Len(input.Modules) :
            (/\ IsFirstParty(input.Modules[i])
             /\ \/ semverForGoVersion(env.gover) = <<>>
                \/ \E k \in CallsFor("osvutils.AffectsSemver", i) :
                       ~env.calls[k].answer.affected)
            => /\ CallsFor("symbols.Exported", i) = {}
               /\ DerivedUnchanged(i)

\* The first module is first-party and the range check answered "not
\* affected" for a parsed version: it was skipped, and the second module,
\* not first-party, was refreshed.
C4_Witness ==
    /\ pc = "returned"
    /\ Len(input.Modules) = 2
    /\ IsFirstParty(input.Modules[1])
    /\ ~IsFirstParty(input.Modules[2])
    /\ semverForGoVersion(env.gover) # <<>>
    /\ \E k \in CallsFor("osvutils.AffectsSemver", 1) :
           ~env.calls[k].answer.affected /\ ~env.calls[k].answer.err
    /\ CallsFor("symbols.Exported", 1) = {}
    /\ CallsFor("symbols.Exported", 2) # {}
    /\ ~DerivedUnchanged(2)

\* C5: a toolchain tag that does not parse is never surfaced as an error:
\* with the empty version, checkSymbols only skips the first-party modules,
\* whatever the affected-range check returns, so an error it returns can only
\* come from the Symbol Exporter.
C5_UnparseableTagNoError ==
    (pc = "returned" /\ semverForGoVersion(env.gover) = <<>> /\ output # NoErr)
        => /\ output # "affects error"
           /\ env.calls[Len(env.calls)].fn = "symbols.Exported"

\* C15: a failure of the symbol exporter for a package aborts the refresh
\* of that module only: the packages of the modules that come later in the
\* report (not skipped, and of a module the version gate does not concern)
\* are still queried for in the same call of checkSymbols.
C15_LaterModulesRefreshed ==
    (pc = "returned" /\ output = "package error") =>
        LET failed == env.calls[Len(env.calls)].module
        IN \A i \in (failed + 1)..Len(input.Modules) :
               ~IsFirstParty(input.Modules[i]) =>
                   \A j \in 1..Len(input.Modules[i].Packages) :
                       input.Modules[i].Packages[j].SkipFix = "" =>
                           \E k \in CallsFor("symbols.Exported", i) : env.calls[k].package = j

\* The symbols of syms that are not in excluded, in the order of syms.
RECURSIVE WithoutExcluded(_, _)
WithoutExcluded(syms, excluded) ==
    IF syms = <<>> THEN <<>>
    ELSE (IF \E e \in 1..Len(excluded) : excluded[e] = Head(syms) THEN <<>> ELSE <<Head(syms)>>)
         \o WithoutExcluded(Tail(syms), excluded)

\* The calls of symbols.Exported that succeeded.
Refreshes ==
    {k \in 1..Len(env.calls) : env.calls[k].fn = "symbols.Exported" /\ ~env.calls[k].answer.err}

\* The assignments of derived symbols that were logged for package j of module i.
UpdatesOf(i, j) ==
    {k \in 1..Len(env.calls) : /\ env.calls[k].fn = "updated derived symbols"
                               /\ env.calls[k].module = i
                               /\ env.calls[k].package = j}

ModuleEntered(i) ==
    /\ ~IsExcluded(input)
    /\ IsFirstParty(input.Modules[i]) =>
           /\ semverForGoVersion(env.gover) # <<>>
           /\ \E k \in CallsFor("osvutils.AffectsSemver", i) :
                  env.calls[k].answer.affected /\ ~env.calls[k].answer.err

\* The calls of symbols.Exported for package j of module i.
ExportedCalls(i, j) ==
    {k \in CallsFor("symbols.Exported", i) : env.calls[k].package = j}

\* C17: a non-empty skip reason disables the refresh of that package only:
\* checkSymbols makes no query for it and leaves it as it was, while in a
\* run without error every other package of a module it goes through,
\* before and after the skipped one, is queried for once. For an excluded
\* report nothing is queried and no package changes.
C17_SkipFixSkipsOnlyThatPackage ==
    pc = "returned" =>
        /\ \A i \in 1..Len(input.Modules) : \A j \in 1..Len(input.Modules[i].Packages) :
               IF input.Modules[i].Packages[j].SkipFix # ""
               THEN /\ ExportedCalls(i, j) = {}
                    /\ r.Modules[i].Packages[j] = input.Modules[i].Packages[j]
               ELSE (ModuleEntered(i) /\ output = NoErr)
                        => Cardinality(ExportedCalls(i, j)) = 1
        /\ IsExcluded(input) =>
               /\ env.calls = <<>>
               /\ r.Modules = input.Modules
               /\ output = NoErr

\* A module whose second of three packages has a skip reason was gone
\* through without error: the first and the third were queried for, the
\* second was not, and the third has new derived symbols.
C17_Witness ==
    /\ pc = "returned"
    /\ output = NoErr
    /\ input.Modules[1].Packages = <<PkgCurated, PkgSkipped, PkgStale>>
    /\ ModuleEntered(1)
    /\ ExportedCalls(1, 1) # {}
    /\ ExportedCalls(1, 2) = {}
    /\ ExportedCalls(1, 3) # {}
    /\ r.Modules[1].Packages[2] = PkgSkipped
    /\ r.Modules[1].Packages[3].DerivedSymbols # PkgStale.DerivedSymbols

(***************************************************************************)
(* checkRefs                                                               *)
(***************************************************************************)
\* http.StatusNotFound
StatusNotFound == 404

\* What http.Head may answer: a transport error, or a response with a status.
HeadAnswers ==
    {[err |-> TRUE, StatusCode |-> 0]}
    \cup {[err |-> FALSE, StatusCode |-> c] : c \in {200, StatusNotFound, 500, 403}}

\* The test of checkRefs with every status but 200 taken as a defect.
IsRefDefectNon200(resp) == resp.err \/ resp.StatusCode # 200

\* Whether checkRefs calls fixErr for a reference that was answered by resp.
IsRefDefect(resp) == resp.err \/ resp.StatusCode = StatusNotFound

\* The calls of fixErr that checkRefs(refs, fixErr) makes, in order, when
\* http.Head answers head[i] for the i-th reference.
checkRefs(refs, head) ==
    LET loop[i \in 0..Len(refs)] ==
            IF i = 0 THEN <<>>
            ELSE IF ~IsRefDefect(head[i]) THEN loop[i - 1]
            ELSE IF head[i].err
            THEN Append(loop[i - 1], [f |-> "%q may not exist: %v", v |-> refs[i].URL])
            ELSE Append(loop[i - 1],
                        [f |-> "%q may not exist: HTTP GET returned status %s",
                         v |-> refs[i].URL])
    IN loop[Len(refs)]

URLs == {"https://a", "https://b"}

ReferenceLists == {[i \in 1..Len(us) |-> referenceFromUrl(us[i])] : us \in SeqUpTo(URLs, MaxRefs)}

\* The log of the requests made for refs.
HeadCalls(refs, head) ==
    [i \in 1..Len(refs) |-> [fn |-> "http.Head", url |-> refs[i].URL, answer |-> head[i]]]

InitRefs ==
    /\ pc = "checkRefs"
    /\ input \in ReferenceLists
    /\ output = <<>>
    /\ env = [gover |-> <<>>, calls |-> <<>>]
    /\ flags = [force |-> FALSE, skipAlias |-> FALSE, skipSymbols |-> FALSE]
    /\ addNotes = FALSE
    /\ r = <<>>
    /\ fixed = TRUE
    /\ ret = "none"
    /\ disk = <<>>
    /\ trace = <<>>

CallCheckRefs ==
    /\ pc = "checkRefs"
    /\ \E head \in [1..Len(input) -> HeadAnswers] :
           /\ output' = checkRefs(input, head)
           /\ env' = [env EXCEPT !.calls = HeadCalls(input, head)]
    /\ pc' = "returned"
    /\ UNCHANGED <<input, flags, addNotes, r, fixed, ret, disk, trace>>

NextRefs == CallCheckRefs

SpecRefs == InitRefs /\ [][NextRefs]_vars

\* The indices, in order, of the references whose request failed at the
\* transport level or was answered 404.
RECURSIVE DefectiveFrom(_)
DefectiveFrom(i) ==
    IF i > Len(env.calls) THEN <<>>
    ELSE (IF env.calls[i].answer.err \/ env.calls[i].answer.StatusCode = 404
          THEN <<i>> ELSE <<>>) \o DefectiveFrom(i + 1)

\* C6: checkRefs examines every reference in order and reports a defect for
\* a reference iff its HEAD request failed at the transport level or was
\* answered 404; other statuses report nothing, and a defect does not stop
\* the check of the following references.
C6_RefDefects ==
    pc = "returned" =>
        LET defective == DefectiveFrom(1)
        IN /\ Len(env.calls) = Len(input)
           /\ \A i \in 1..Len(input) : env.calls[i].url = input[i].URL
           /\ Len(output) = Len(defective)
           /\ \A k \in 1..Len(defective) : output[k].v = input[defective[k]].URL
           /\ \A i \in 1..Len(input) :
                  env.calls[i].answer.StatusCode \in {200, 500, 403}
                      => \A k \in 1..Len(defective) : defective[k] # i

\* Two references: the first is answered 404, the second 500; only the first
\* is reported, and the second was still requested.
C6_Witness ==
    /\ pc = "returned"
    /\ Len(input) = 2
    /\ env.calls[1].answer = [err |-> FALSE, StatusCode |-> 404]
    /\ env.calls[2].answer = [err |-> FALSE, StatusCode |-> 500]
    /\ Len(output) = 1
    /\ output[1].v = input[1].URL

(***************************************************************************)
(* fixer.fix and fixer.fixAndWriteAll                                      *)
(***************************************************************************)
\* The lint messages of a report: r.Lint returns those the report has.
LintMessages == {"L1", "L2"}
Lint(rep) == rep.Defects

\* One step of the run, as it is logged.
Step(name, arg) == [step |-> name, arg |-> arg]

\* fixErr that records the message and leaves fixed as it is.
fixErrRecordOnly(st, notes, m) ==
    [r |-> IF notes
           THEN [st.r EXCEPT !.Notes = Append(@, [Type |-> "FIX", Body |-> m])]
           ELSE st.r,
     fixed |-> st.fixed,
     trace |-> Append(st.trace, Step("fixErr", m))]

\* fixErr that never adds a note.
fixErrNoNote(st, notes, m) ==
    [r |-> st.r,
     fixed |-> FALSE,
     trace |-> Append(st.trace, Step("fixErr", m))]

\* The closure fixErr of fix, applied to the state st of the pass (the
\* report, the variable fixed and the log): logs, adds a note in batch mode
\* and sets fixed to false.
fixErr(st, notes, m) ==
    [r |-> IF notes
           THEN [st.r EXCEPT !.Notes = Append(@, [Type |-> "FIX", Body |-> m])]
           ELSE st.r,
     fixed |-> FALSE,
     trace |-> Append(st.trace, Step("fixErr", m))]

\* fixErr applied to each of the messages ms in turn.
RECURSIVE fixErrAll(_, _, _)
fixErrAll(st, notes, ms) ==
    IF ms = <<>> THEN st
    ELSE fixErrAll(fixErr(st, notes, Head(ms)), notes, Tail(ms))

\* Report.LintAsNotes: one note per lint message; whether there was any.
LintAsNotes(rep) ==
    [r |-> [rep EXCEPT !.Notes =
                @ \o [i \in 1..Len(Lint(rep)) |-> [Type |-> "LINT", Body |-> Lint(rep)[i]]]],
     found |-> Len(Lint(rep)) > 0]

\* The aliases the alias finder adds.
NewAliases == <<"GHSA-0001", "CVE-2024-0002", "GHSA-0003">>

\* The reports of the runs of fix.
ModuleStd ==
    [Module |-> stdlibModulePath, Versions |-> <<[Introduced |-> "", Fixed |-> "1.2.0"]>>,
     VulnerableAt |-> "1.21.3", Packages |-> <<PkgCurated, PkgStale>>]
ModuleThirdParty ==
    [Module |-> "example.com/m", Versions |-> <<>>, VulnerableAt |-> "",
     Packages |-> <<PkgSkipped, PkgStale>>]

FixReports ==
    {NewReport(ms[1], ms[2], [i \in 1..k |-> referenceFromUrl(IF i % 2 = 1 THEN "https://a"
                                                                ELSE "https://b")], defects) :
        ms \in {<<<<ModuleThirdParty>>, "">>, <<<<ModuleStd, ModuleThirdParty>>, "">>,
                <<<<ModuleThirdParty>>, "NOT_GO_CODE">>},
        k \in 0..MaxRefs,
        defects \in {<<>>, <<"L1">>, <<"L1", "L2">>}}

Init ==
    /\ pc = "fix"
    /\ flags \in [force : BOOLEAN, skipAlias : BOOLEAN, skipSymbols : BOOLEAN]
    /\ addNotes \in BOOLEAN
    /\ r \in FixReports
    /\ env \in [gover : {<<"g", "o", "1", ".", "2", "1", ".", "3">>, <<"d", "e", "v", "e", "l">>},
                calls : {<<>>}]
    /\ fixed = TRUE
    /\ ret = "none"
    /\ disk = [report |-> <<>>, derived |-> <<>>]
    /\ trace = <<>>
    /\ input = <<>>
    /\ output = <<>>

\* The first lint with the autofixer run only when a lint was found.
FixLintNoForce ==
    /\ pc = "fix"
    /\ LET lints == Lint(r)
       IN IF Len(lints) > 0
          THEN \E repaired \in SUBSET LintMessages :
                   /\ r' = [r EXCEPT !.Defects = SelectSeq(@, LAMBDA d : d \notin repaired)]
                   /\ trace' = trace \o <<Step("Lint", Len(lints)), Step("Fix", 0)>>
          ELSE /\ r' = r
               /\ trace' = Append(trace, Step("Lint", Len(lints)))
    /\ pc' = "checkSymbols"
    /\ UNCHANGED <<flags, addNotes, env, fixed, ret, disk, input, output>>

\* fix.go:92-94: lint, and run the autofixer if forced or a lint was found.
FixLint ==
    /\ pc = "fix"
    /\ LET lints == Lint(r)
       IN IF flags.force \/ Len(lints) > 0
          THEN \E repaired \in SUBSET LintMessages :
                   /\ r' = [r EXCEPT !.Defects = SelectSeq(@, LAMBDA d : d \notin repaired)]
                   /\ trace' = trace \o <<Step("Lint", Len(lints)), Step("Fix", 0)>>
          ELSE /\ r' = r
               /\ trace' = Append(trace, Step("Lint", Len(lints)))
    /\ pc' = "checkSymbols"
    /\ UNCHANGED <<flags, addNotes, env, fixed, ret, disk, input, output>>

\* The symbol refresh of a pass that returns not-fixed at once when
\* checkSymbols fails.
FixCheckSymbolsAbort ==
    /\ pc = "checkSymbols"
    /\ IF flags.skipSymbols
       THEN /\ pc' = "addMissingAliases"
            /\ UNCHANGED <<r, fixed, trace, env, ret>>
       ELSE \E o \in checkSymbols(r, env.gover) :
                LET st == [r |-> [r EXCEPT !.Modules = o.Modules], fixed |-> fixed,
                           trace |-> Append(trace, Step("checkSymbols", o.err))]
                    st2 == IF o.err # NoErr
                           THEN fixErr(st, addNotes,
                                       [f |-> "package or symbol error: %s", v |-> o.err])
                           ELSE st
                IN /\ r' = st2.r
                   /\ fixed' = st2.fixed
                   /\ trace' = st2.trace
                   /\ env' = [env EXCEPT !.calls = @ \o o.calls]
                   /\ pc' = IF o.err = NoErr THEN "addMissingAliases"
                            ELSE IF addNotes THEN "done" ELSE "write"
                   /\ ret' = IF o.err # NoErr /\ addNotes THEN "not fixed" ELSE ret
    /\ UNCHANGED <<flags, addNotes, disk, input, output>>

\* fix.go:96-101
FixCheckSymbols ==
    /\ pc = "checkSymbols"
    /\ IF flags.skipSymbols
       THEN UNCHANGED <<r, fixed, trace, env>>
       ELSE \E o \in checkSymbols(r, env.gover) :
                LET st == [r |-> [r EXCEPT !.Modules = o.Modules], fixed |-> fixed,
                           trace |-> Append(trace, Step("checkSymbols", o.err))]
                    st2 == IF o.err # NoErr
                           THEN fixErr(st, addNotes,
                                       [f |-> "package or symbol error: %s", v |-> o.err])
                           ELSE st
                IN /\ r' = st2.r
                   /\ fixed' = st2.fixed
                   /\ trace' = st2.trace
                   /\ env' = [env EXCEPT !.calls = @ \o o.calls]
    /\ pc' = "addMissingAliases"
    /\ UNCHANGED <<flags, addNotes, ret, disk, input, output>>

\* fix.go:103-108
FixAddMissingAliases ==
    /\ pc = "addMissingAliases"
    /\ IF flags.skipAlias
       THEN UNCHANGED <<r, trace>>
       ELSE \E added \in 0..MaxAdded :
                /\ r' = [r EXCEPT !.Aliases = @ \o SubSeq(NewAliases, 1, added)]
                /\ trace' = Append(trace, Step("addMissingAliases", added))
    /\ pc' = "checkRefs"
    /\ UNCHANGED <<flags, addNotes, env, fixed, ret, disk, input, output>>

\* fix.go:110-112
FixCheckRefs ==
    /\ pc = "checkRefs"
    /\ \E head \in [1..Len(r.References) -> HeadAnswers] :
           LET st == fixErrAll([r |-> r, fixed |-> fixed,
                                trace |-> Append(trace, Step("checkRefs", Len(r.References)))],
                               addNotes, checkRefs(r.References, head))
           IN /\ r' = st.r
              /\ fixed' = st.fixed
              /\ trace' = st.trace
    /\ pc' = "finalLint"
    /\ UNCHANGED <<flags, addNotes, env, ret, disk, input, output>>

\* The final lint with the result of LintAsNotes ignored.
FixFinalLintIgnoreNotes ==
    /\ pc = "finalLint"
    /\ IF addNotes
       THEN /\ r' = LintAsNotes(r).r
            /\ fixed' = fixed
            /\ trace' = Append(trace, Step("LintAsNotes", Len(Lint(r))))
            /\ pc' = "done"
            /\ ret' = IF fixed' THEN "fixed" ELSE "not fixed"
       ELSE /\ r' = r
            /\ fixed' = (fixed /\ Len(Lint(r)) = 0)
            /\ trace' = Append(trace, Step("Lint", Len(Lint(r))))
            /\ pc' = "write"
            /\ ret' = ret
    /\ UNCHANGED <<flags, addNotes, env, disk, input, output>>

\* fix.go:114-127: the final lint and the return of fix. Called with
\* addNotes, fix returns to its batch caller; otherwise to fixAndWriteAll.
FixFinalLint ==
    /\ pc = "finalLint"
    /\ IF addNotes
       THEN /\ r' = LintAsNotes(r).r
            /\ fixed' = (fixed /\ ~LintAsNotes(r).found)
            /\ trace' = Append(trace, Step("LintAsNotes", Len(Lint(r))))
            /\ pc' = "done"
            /\ ret' = IF fixed' THEN "fixed" ELSE "not fixed"
       ELSE /\ r' = r
            /\ fixed' = (fixed /\ Len(Lint(r)) = 0)
            /\ trace' = Append(trace, Step("Lint", Len(Lint(r))))
            /\ pc' = "write"
            /\ ret' = ret
    /\ UNCHANGED <<flags, addNotes, env, disk, input, output>>

\* fixAndWriteAll that writes the report only when it was fixed.
WriteReportIfFixed ==
    /\ pc = "write"
    /\ IF fixed
       THEN /\ trace' = Append(trace, Step("write", 0))
            /\ disk' = [disk EXCEPT !.report = Append(@, r)]
            /\ pc' = "writeDerived"
            /\ ret' = ret
       ELSE /\ pc' = "done"
            /\ ret' = "could not fix all errors; requires manual review"
            /\ UNCHANGED <<trace, disk>>
    /\ UNCHANGED <<flags, addNotes, r, env, fixed, input, output>>

\* fixAndWriteAll that writes the derived files whatever fix returned.
WriteReportThenDerived ==
    /\ pc = "write"
    /\ trace' = Append(trace, Step("write", 0))
    /\ \E ok \in BOOLEAN :
           IF ~ok
           THEN /\ pc' = "done"
                /\ ret' = "write error"
                /\ disk' = disk
           ELSE /\ disk' = [disk EXCEPT !.report = Append(@, r)]
                /\ pc' = "writeDerived"
                /\ ret' = ret
    /\ UNCHANGED <<flags, addNotes, r, env, fixed, input, output>>

\* fix.go:69-78: r.write(), and the error returned when the report was not fixed.
WriteReport ==
    /\ pc = "write"
    /\ trace' = Append(trace, Step("write", 0))
    /\ \E ok \in BOOLEAN :
           IF ~ok
           THEN /\ pc' = "done"
                /\ ret' = "write error"
                /\ disk' = disk
           ELSE /\ disk' = [disk EXCEPT !.report = Append(@, r)]
                /\ IF fixed
                   THEN pc' = "writeDerived" /\ ret' = ret
                   ELSE /\ pc' = "done"
                        /\ ret' = "could not fix all errors; requires manual review"
    /\ UNCHANGED <<flags, addNotes, r, env, fixed, input, output>>

\* fix.go:74-76: return r.writeDerived()
WriteDerived ==
    /\ pc = "writeDerived"
    /\ trace' = Append(trace, Step("writeDerived", 0))
    /\ \E ok \in BOOLEAN :
           IF ok
           THEN disk' = [disk EXCEPT !.derived = Append(@, r)] /\ ret' = "nil"
           ELSE disk' = disk /\ ret' = "writeDerived error"
    /\ pc' = "done"
    /\ UNCHANGED <<flags, addNotes, r, env, fixed, input, output>>

Next ==
    \/ FixLint
    \/ FixCheckSymbols
    \/ FixAddMissingAliases
    \/ FixCheckRefs
    \/ FixFinalLint
    \/ WriteReport
    \/ WriteDerived

Spec == Init /\ [][Next]_vars

\* The positions of the steps named name in the log.
StepsNamed(name) == {k \in 1..Len(trace) : trace[k].step = name}

\* fix has returned.
FixReturned == pc \in {"write", "writeDerived", "done"}

\* The number of lint messages the last lint of the log found.
LastLintFound ==
    LET lints == StepsNamed("Lint") \cup StepsNamed("LintAsNotes")
    IN trace[CHOOSE k \in lints : \A j \in lints : j <= k].arg

ManualReview == "could not fix all errors; requires manual review"

\* C1: fixAndWriteAll calls r.write() in every execution, whatever fix
\* returned, after the pass has completed; when it returns the "requires
\* manual review" error the report as the pass left it is on disk.
C1_AlwaysWritten ==
    (pc = "done" /\ ~addNotes) =>
        /\ Cardinality(StepsNamed("write")) = 1
        /\ \A k \in StepsNamed("write") :
               /\ k > 1
               /\ trace[k - 1].step = "Lint"
               /\ \A j \in 1..(k - 1) : trace[j].step \notin {"write", "writeDerived"}
        /\ ret = ManualReview => (~fixed /\ disk.report = <<r>>)
        /\ ret # "write error" => disk.report = <<r>>

\* A pass that repaired a lint, refreshed symbols and met a reference defect
\* was not fixed; the report was written and the error returned.
C1_Witness ==
    /\ pc = "done"
    /\ ~addNotes
    /\ ret = ManualReview
    /\ StepsNamed("Fix") # {}
    /\ StepsNamed("fixErr") # {}
    /\ disk.report = <<r>>
    /\ r.Modules[1].Packages[2].DerivedSymbols # PkgStale.DerivedSymbols

\* C2: if the final lint of a pass finds a residual defect, fix returns
\* not-fixed, in interactive and in batch mode, whatever the earlier steps
\* did, and fixAndWriteAll returns an error.
C2_ResidualLintFails ==
    (FixReturned /\ LastLintFound > 0) =>
        /\ ~fixed
        /\ pc # "writeDerived"
        /\ addNotes => ret = "not fixed"
        /\ (~addNotes /\ pc = "done") => ret \in {ManualReview, "write error"}

\* In batch mode no step before the final lint reported an error and the
\* final lint found a defect: fix returned not-fixed.
C2_Witness ==
    /\ pc = "done"
    /\ addNotes
    /\ StepsNamed("fixErr") = {}
    /\ LastLintFound > 0
    /\ ret = "not fixed"

\* C3 as stated: only the final lint decides the result of fix; when it
\* finds no residual defect, fix reports the report as fixed.
C3_OnlyFinalLintDecides ==
    (FixReturned /\ LastLintFound = 0) => fixed

\* C3 as amended: a reference defect or a symbol error does not halt the
\* pass (the final lint still runs after it, and in batch mode each is
\* recorded as one note), but makes fix return not-fixed: fix returns fixed
\* iff no such error was reported and the final lint finds no residual defect.
C3_FixedIffNoErrorAndNoLint ==
    FixReturned =>
        /\ fixed <=> (StepsNamed("fixErr") = {} /\ LastLintFound = 0)
        /\ \A k \in StepsNamed("fixErr") :
               \E j \in StepsNamed("Lint") \cup StepsNamed("LintAsNotes") : j > k
        /\ Cardinality({i \in 1..Len(r.Notes) : r.Notes[i].Type = "FIX"})
               = (IF addNotes THEN Cardinality(StepsNamed("fixErr")) ELSE 0)

\* One reference was answered with a defect, the final lint found nothing:
\* the pass ran to its end and fix returned not-fixed.
C3_Witness ==
    /\ FixReturned
    /\ LastLintFound = 0
    /\ Cardinality(StepsNamed("fixErr")) = 1
    /\ \E k \in StepsNamed("fixErr") : k > 1 /\ \E j \in StepsNamed("checkRefs") : j < k
    /\ StepsNamed("checkSymbols") # {}
    /\ trace[CHOOSE k \in StepsNamed("checkSymbols") : TRUE].arg = NoErr
    /\ ~fixed

\* The names of the steps of fix in the log, in order: the reports of
\* errors and the steps of fixAndWriteAll left out.
FixSteps ==
    LET steps == SelectSeq(trace, LAMBDA st : st.step \notin {"fixErr", "write", "writeDerived"})
    IN [k \in 1..Len(steps) |-> steps[k].step]

\* The steps a pass has to take, given the flags and the number of lint
\* messages found by its first lint.
ExpectedFixSteps(firstLints) ==
    <<"Lint">>
    \o (IF flags.force \/ firstLints > 0 THEN <<"Fix">> ELSE <<>>)
    \o (IF flags.skipSymbols THEN <<>> ELSE <<"checkSymbols">>)
    \o (IF flags.skipAlias THEN <<>> ELSE <<"addMissingAliases">>)
    \o <<"checkRefs">>
    \o (IF addNotes THEN <<"LintAsNotes">> ELSE <<"Lint">>)

\* C13: a pass takes its steps in the order lint, autofix, symbol refresh,
\* alias merge, reference validation, final lint, each at most once: the
\* autofix iff forced or the first lint found a defect, the symbol refresh
\* iff skip-symbols is off, the alias merge iff skip-alias is off, the
\* reference validation and the final lint always. At every moment the steps
\* taken are a prefix of that list, and all of it once fix has returned.
C13_StepOrder ==
    trace # <<>> =>
        LET expected == ExpectedFixSteps(trace[1].arg)
        IN /\ trace[1].step = "Lint"
           /\ Len(FixSteps) <= Len(expected)
           /\ FixSteps = SubSeq(expected, 1, Len(FixSteps))
           /\ FixReturned => FixSteps = expected

\* A forced pass over a report without lint, with the symbol refresh
\* skipped, has returned: autofix, alias merge, reference validation and the
\* final lint were run.
C13_Witness ==
    /\ FixReturned
    /\ flags.force /\ flags.skipSymbols /\ ~flags.skipAlias
    /\ trace[1] = Step("Lint", 0)
    /\ FixSteps = <<"Lint", "Fix", "addMissingAliases", "checkRefs",
                    IF addNotes THEN "LintAsNotes" ELSE "Lint">>

\* The message fix reports for the error err of checkSymbols.
SymbolErrorMessage(err) == [f |-> "package or symbol error: %s", v |-> err]

\* The positions of the log at which checkSymbols returned the error of the
\* symbol exporter.
ExtractionFailures ==
    {k \in StepsNamed("checkSymbols") : trace[k].arg = "package error"}

\* C14: a failure of the symbol exporter does not abort the pass. It is
\* reported once, by the step that follows the symbol refresh, and once fix
\* has returned the alias merge (unless skipped), the reference validation
\* over all the references and the final lint have been run after it; in
\* interactive mode the report is then written, and is on disk unless the
\* write itself failed.
C14_ExtractionFailureGoesOn ==
    \A k \in ExtractionFailures :
        /\ k < Len(trace)
        /\ trace[k + 1] = Step("fixErr", SymbolErrorMessage("package error"))
        /\ Cardinality({j \in StepsNamed("fixErr") : trace[j].arg.f = "package or symbol error: %s"}) = 1
        /\ FixReturned =>
               /\ (~flags.skipAlias) <=> (\E j \in StepsNamed("addMissingAliases") : j > k)
               /\ \E j \in StepsNamed("checkRefs") :
                      /\ j > k
                      /\ trace[j].arg = Len(r.References)
                      /\ \E l \in StepsNamed("Lint") \cup StepsNamed("LintAsNotes") : l > j
        /\ (pc = "done" /\ ~addNotes) =>
               /\ \E j \in StepsNamed("write") : j > k + 1
               /\ ret # "write error" => disk.report = <<r>>

\* The symbol exporter failed in an interactive pass with two references
\* and the alias merge on; the pass went on to its end and the report is
\* on disk.
C14_Witness ==
    /\ pc = "done"
    /\ ~addNotes
    /\ ~flags.skipAlias
    /\ ExtractionFailures # {}
    /\ Len(r.References) = 2
    /\ StepsNamed("addMissingAliases") # {}
    /\ StepsNamed("checkRefs") # {}
    /\ disk.report = <<r>>
    /\ ret = ManualReview

\* C18: fixAndWriteAll calls writeDerived only if fix returned fixed and
\* r.write() succeeded, and then after the write: never when the pass was
\* not fixed or the write failed, and always when both succeeded. The pass
\* is run once per invocation, before the write.
C18_DerivedOnlyAfterFixedWrite ==
    /\ Cardinality(StepsNamed("writeDerived")) <= 1
    /\ \A k \in StepsNamed("writeDerived") :
           /\ fixed
           /\ ~addNotes
           /\ StepsNamed("write") = {k - 1}
           /\ disk.report = <<r>>
    /\ (pc = "done" /\ ~addNotes) =>
           /\ StepsNamed("writeDerived") # {} <=> (fixed /\ ret # "write error")
           /\ Cardinality(StepsNamed("write")) = 1
           /\ Cardinality(StepsNamed("checkRefs")) = 1
           /\ Cardinality(StepsNamed("Lint")) = 2
           /\ \A k \in StepsNamed("write"), j \in 1..Len(trace) :
                  trace[j].step \notin {"write", "writeDerived"} => j < k
    /\ disk.derived # <<>> => (disk.derived = <<r>> /\ disk.report = <<r>> /\ ret = "nil")

\* A pass that ran the autofixer returned fixed: the report was written,
\* its derived files right after it, and both are on disk.
C18_Witness ==
    /\ pc = "done"
    /\ ~addNotes
    /\ fixed
    /\ ret = "nil"
    /\ StepsNamed("Fix") # {}
    /\ \E k \in StepsNamed("write") : StepsNamed("writeDerived") = {k + 1}
    /\ disk.report = <<r>>
    /\ disk.derived = <<r>>

\* The notes of the report of the given type.
NotesOfType(type) == {i \in 1..Len(r.Notes) : r.Notes[i].Type = type}

\* C19: in batch mode every symbol error and every reference defect
\* attaches one note of type fix to the report, with the message reported,
\* and the residual lint is recorded as notes by the final lint, so that fix
\* returns not-fixed only if at least one note was attached; in interactive
\* mode no note is attached.
C19_NotesInBatchMode ==
    /\ ~addNotes => r.Notes = <<>>
    /\ addNotes =>
           /\ Cardinality(NotesOfType("FIX")) = Cardinality(StepsNamed("fixErr"))
           /\ \A k \in StepsNamed("fixErr") :
                  \E i \in NotesOfType("FIX") :
                      /\ r.Notes[i].Body = trace[k].arg
                      /\ Cardinality({j \in StepsNamed("fixErr") : j <= k})
                             = Cardinality({n \in NotesOfType("FIX") : n <= i})
           /\ FixReturned =>
                  /\ Cardinality(NotesOfType("LINT")) = LastLintFound
                  /\ ~fixed => Len(r.Notes) > 0
                  /\ ret = "not fixed" => Len(r.Notes) > 0

\* A batch pass met a symbol error and a reference defect and left lint:
\* the report has two notes of type fix and the lint notes, and fix
\* returned not-fixed.
C19_Witness ==
    /\ pc = "done"
    /\ addNotes
    /\ ret = "not fixed"
    /\ ExtractionFailures # {}
    /\ Cardinality(StepsNamed("fixErr")) = 2
    /\ Cardinality(NotesOfType("FIX")) = 2
    /\ Cardinality(NotesOfType("LINT")) = 1

====
